---- MODULE Spec2Model ----
(***************************************************************************)
(* The external-task mock worker of src/mock-worker/worker.py as a state   *)
(* machine: the startup probe loop (_wait_for_camunda), the poll loop of   *)
(* main with its per-task dispatch, the engine client calls, the topic     *)
(* handlers and the shutdown signal handler.                               *)
(*                                                                         *)
(* The main thread's position is pc; the signal handler _shutdown may run  *)
(* between any two steps of the main thread.  An exception nobody catches  *)
(* leaves main: the process ends with a traceback and exit code 1, which   *)
(* is pc = "crashed" with exc naming the exception.                        *)
(***************************************************************************)
EXTENDS Naturals, Integers, Sequences, FiniteSets

VARIABLES
    _running,                \* the module global of line 52
    RETRY_BACKOFF,           \* configuration, fixed at import (line 30)
    MOCK_IS_READABLE,        \* line 33
    MOCK_IS_DUPLICATE,       \* line 34
    MOCK_AUTO_COG_RESPONSE,  \* line 35
    pc,                      \* position of the main thread
    attempt,                 \* local of _wait_for_camunda
    delays,                  \* the backoff sleeps of the running probe loop, in order
    reachable,               \* what _wait_for_camunda returned, "none" before it returns
    probeOk,                 \* a probe has answered HTTP 200
    fetched,                 \* the task list of the last fetchAndLock response, as received
    tasks,                   \* the batch returned by the last _fetch_and_lock
    idx,                     \* position of `for task in tasks` (1-based)
    variables,               \* the handler's result for tasks[idx]
    calls,                   \* engine calls issued since (and including) the last fetch
    raised,                  \* positions of the batch whose handler raised
    nFetch,                  \* number of fetchAndLock calls issued
    stopFetches,             \* number of them issued while _running was False
    stopInLoop,              \* _shutdown ran while main was in the poll loop
    exc,                     \* the uncaught exception, "none" while there is none
    exitCode,                \* {} while the process runs, {c} once it has exited with code c
    log                      \* the final log lines written (lines 278, 309)

vars ==
    << _running, RETRY_BACKOFF, MOCK_IS_READABLE, MOCK_IS_DUPLICATE,
       MOCK_AUTO_COG_RESPONSE, pc, attempt, delays, reachable, probeOk, fetched, tasks,
       idx, variables, calls, raised, nFetch, stopFetches, stopInLoop, exc,
       exitCode, log >>

----------------------------------------------------------------------------
(* Bounds of the model.                                                    *)

\* Probe attempts explored; the code has no maximum.
MaxAttempts == 8

\* fetchAndLock calls explored; the code polls for ever.
MaxPolls == 2

\* Longest batch explored; the request asks for up to 10 tasks (line 198).
MaxBatch == 2

\* The values of RETRY_BACKOFF explored.
Bases == {5, 7}

----------------------------------------------------------------------------
(* Program constants.                                                      *)

\* The cap of the backoff, the literal of line 179.
BackoffCap == 30

\* task.get("id", "?") of a task that has no "id" key (line 288).
NoId == "?"

Min(a, b) == IF a <= b THEN a ELSE b

\* The empty variables mapping.
NoVars == [n \in {} |-> TRUE]

----------------------------------------------------------------------------
(* Tasks as the engine returns them.                                       *)
(*                                                                         *)
(* A task is the JSON object of the fetchAndLock response.  Its field      *)
(* `variables` is kept by its shape with respect to the one entry a        *)
(* handler reads (notificationType, matchedApplicationId):                 *)
(*   "absent"    the task has no "variables" key                           *)
(*   "null"      "variables": null                                         *)
(*   "empty"     "variables": {}                                           *)
(*   "entryNull" "variables": {"<entry>": null}                            *)
(*   "entry"     "variables": {"<entry>": {"value": ..., "type": ...}}     *)

VariablesShapes == {"absent", "null", "empty", "entryNull", "entry"}

Task(id, topic, pid, shape) ==
    [id |-> id, topicName |-> topic, processInstanceId |-> pid, variables |-> shape]

\* The tasks the engine may hand out in the explored runs.
TaskPool ==
    { Task("t1", "sendNotification", "p1", "entry"),
      Task("t2", "notifyDuplicate", "p1", "entryNull"),
      Task("t3", "sendCogEmail", "p2", "absent"),
      Task("t4", "reviewManually", "p2", "empty"),
      Task(NoId, "archiveCase", "p3", "empty"),
      Task("t6", "assessReadability", "p3", "null"),
      Task("t7", "checkDuplicateApplication", "p1", "entry") }

RECURSIVE SeqsOver(_, _)
\* The sequences of length n of distinct elements of S.
SeqsOver(S, n) ==
    IF n = 0 THEN { << >> }
    ELSE { Append(s, t) : s \in SeqsOver(S, n - 1), t \in S } \
         { q \in { Append(s, t) : s \in SeqsOver(S, n - 1), t \in S } :
             \E i \in 1..(n - 1) : q[i] = q[n] }

\* The batches a fetchAndLock response may hold: a task is locked once.
Batches == UNION { SeqsOver(TaskPool, n) : n \in 0..MaxBatch }

----------------------------------------------------------------------------
(* The topic handlers, lines 74-147.  A handler yields                     *)
(* [raised |-> FALSE, vars |-> its result] or, when it raises,             *)
(* [raised |-> TRUE, vars |-> NoVars].                                     *)

Returns(v) == [raised |-> FALSE, vars |-> v]

Raises == [raised |-> TRUE, vars |-> NoVars]

Boolean(b) == [value |-> b, type |-> "Boolean"]

String(s) == [value |-> s, type |-> "String"]

Long(n) == [value |-> n, type |-> "Long"]

\* task.get("variables", {}).get(entry, {}).get("value", "UNKNOWN"): the
\* second .get is applied to None when "variables" is null, the third when
\* the entry is null, and None has no attribute get.
ReadEntryRaises(task) == task.variables \in {"null", "entryNull"}

_handle_send_notification(task) ==
    IF ReadEntryRaises(task) THEN Raises
    ELSE Returns([notificationSent |-> Boolean(TRUE)])

_handle_resume_loan_processing(task) == Returns([resumed |-> Boolean(TRUE)])

_handle_route_to_next_stage(task) == Returns([routed |-> Boolean(TRUE)])

_handle_archive_case(task) == Returns([archived |-> Boolean(TRUE)])

\* A mutant of _handle_assess_readability that does not read the flag.
_handle_assess_readability_always_true(task, flag) ==
    Returns([isReadable |-> Boolean(TRUE)])

_handle_assess_readability(task, flag) == Returns([isReadable |-> Boolean(flag)])

\* A mutant of _handle_check_duplicate that adds matchedApplicationId
\* whatever the flag is.
_handle_check_duplicate_always_matched(task, flag) ==
    Returns([isDuplicate |-> Boolean(flag),
             matchedApplicationId |-> String("MOCK-DUP-12345")])

_handle_check_duplicate(task, flag) ==
    IF flag
    THEN Returns([isDuplicate |-> Boolean(flag),
                  matchedApplicationId |-> String("MOCK-DUP-12345")])
    ELSE Returns([isDuplicate |-> Boolean(flag)])

_handle_send_cog_email(task) == Returns([cogEmailSent |-> Boolean(TRUE)])

_handle_extract_borrower_data(task) ==
    Returns([borrowerFirstName |-> String("John"),
             borrowerLastName |-> String("Doe"),
             borrowerSSN |-> String("***-**-1234"),
             loanAmount |-> Long(25000),
             collateralVIN |-> String("1HGCM82633A004352"),
             refereeId |-> String("REF-MOCK-001"),
             sourceChannel |-> String("email"),
             dataExtracted |-> Boolean(TRUE)])

_handle_notify_duplicate(task) ==
    IF ReadEntryRaises(task) THEN Raises
    ELSE Returns([duplicateNotified |-> Boolean(TRUE)])

\* The registry: topic name -> name of its handler.
TOPIC_HANDLERS ==
    [sendNotification |-> "_handle_send_notification",
     resumeLoanProcessing |-> "_handle_resume_loan_processing",
     routeToNextStage |-> "_handle_route_to_next_stage",
     archiveCase |-> "_handle_archive_case",
     assessReadability |-> "_handle_assess_readability",
     checkDuplicateApplication |-> "_handle_check_duplicate",
     sendCogEmail |-> "_handle_send_cog_email",
     extractBorrowerData |-> "_handle_extract_borrower_data",
     notifyDuplicate |-> "_handle_notify_duplicate"]

\* `if handler:` after TOPIC_HANDLERS.get(topic), line 297-298.
HasHandler(topic) == topic \in DOMAIN TOPIC_HANDLERS

\* handler(task), line 299, for a topic that has a handler.
CallHandler(topic, task, readable, duplicate) ==
    CASE TOPIC_HANDLERS[topic] = "_handle_send_notification" ->
            _handle_send_notification(task)
      [] TOPIC_HANDLERS[topic] = "_handle_resume_loan_processing" ->
            _handle_resume_loan_processing(task)
      [] TOPIC_HANDLERS[topic] = "_handle_route_to_next_stage" ->
            _handle_route_to_next_stage(task)
      [] TOPIC_HANDLERS[topic] = "_handle_archive_case" ->
            _handle_archive_case(task)
      [] TOPIC_HANDLERS[topic] = "_handle_assess_readability" ->
            _handle_assess_readability(task, readable)
      [] TOPIC_HANDLERS[topic] = "_handle_check_duplicate" ->
            _handle_check_duplicate(task, duplicate)
      [] TOPIC_HANDLERS[topic] = "_handle_send_cog_email" ->
            _handle_send_cog_email(task)
      [] TOPIC_HANDLERS[topic] = "_handle_extract_borrower_data" ->
            _handle_extract_borrower_data(task)
      [] TOPIC_HANDLERS[topic] = "_handle_notify_duplicate" ->
            _handle_notify_duplicate(task)

----------------------------------------------------------------------------
(* Engine calls, as they appear in `calls`.                                *)
(*   op   "fetch", "complete" or "message"                                 *)
(*   i    position in the batch of the task being dispatched (0 for fetch) *)
(*   id   the task id in the URL of complete                               *)
(*   pid  the processInstanceId in the body of message                     *)
(*   name the messageName in the body of message                           *)
(*   vars the variables in the body of complete                            *)
(*   ok   FALSE when requests raised a RequestException (transport error,  *)
(*        timeout, or raise_for_status on a non-2xx response)              *)

Call(op, i, id, pid, name, v, ok) ==
    [op |-> op, i |-> i, id |-> id, pid |-> pid, name |-> name, vars |-> v, ok |-> ok]

\* The outcomes of requests.get in the probe (lines 173-178).
\*   "200"             the engine answered HTTP 200
\*   "non200"          it answered with another status
\*   "ConnectionError" requests.ConnectionError (refused, DNS, ConnectTimeout)
\*   "ReadTimeout"     no answer within timeout=5: requests.ReadTimeout, which
\*                     is a Timeout but not a ConnectionError
ProbeOutcomes == {"200", "non200", "ConnectionError", "ReadTimeout"}

\* `if resp.status_code == 200:`, line 174, with a mutant that takes any
\* response for success.
ProbeSucceededAnyStatus(outcome) == outcome \in {"200", "non200"}

ProbeSucceeded(outcome) == outcome = "200"

\* The exceptions `except requests.ConnectionError` catches (line 177).
CaughtByProbe(outcome) == outcome = "ConnectionError"

\* backoff = min(RETRY_BACKOFF * attempt, 30), line 179, with a mutant that
\* forgets the cap.
BackoffUncapped(base, n) == base * n

Backoff(base, n) == Min(base * n, BackoffCap)

\* An exception leaves main: traceback, exit code 1.
Crash(e) ==
    /\ pc' = "crashed"
    /\ exc' = e
    /\ exitCode' = {1}

Alive == exitCode = {}

InPollLoop == pc \in {"loop_test", "fetch", "dispatch", "complete", "cog_sleep",
                      "cog_send", "idle_sleep"}

----------------------------------------------------------------------------
(* The state after the module is imported and main is entered.             *)

Init ==
    /\ _running = TRUE
    /\ RETRY_BACKOFF \in Bases
    /\ MOCK_IS_READABLE \in BOOLEAN
    /\ MOCK_IS_DUPLICATE \in BOOLEAN
    /\ MOCK_AUTO_COG_RESPONSE \in BOOLEAN
    /\ pc = "wait_test"
    /\ attempt = 0
    /\ delays = << >>
    /\ reachable = "none"
    /\ probeOk = FALSE
    /\ fetched = << >>
    /\ tasks = << >>
    /\ idx = 0
    /\ variables = NoVars
    /\ calls = << >>
    /\ raised = {}
    /\ nFetch = 0
    /\ stopFetches = 0
    /\ stopInLoop = FALSE
    /\ exc = "none"
    /\ exitCode = {}
    /\ log = {}

config == << RETRY_BACKOFF, MOCK_IS_READABLE, MOCK_IS_DUPLICATE, MOCK_AUTO_COG_RESPONSE >>

probeVars == << attempt, delays, reachable, probeOk >>

pollVars == << fetched, tasks, idx, variables, calls, raised, nFetch, stopFetches >>

----------------------------------------------------------------------------
(* _shutdown, lines 55-59: the handler of SIGINT and SIGTERM.              *)

\* A mutant of _shutdown that flips the flag instead of clearing it.
_shutdown_toggles ==
    /\ Alive
    /\ _running' = ~_running
    /\ stopInLoop' = (stopInLoop \/ InPollLoop)
    /\ UNCHANGED << config, pc, probeVars, pollVars, exc, exitCode, log >>

_shutdown ==
    /\ Alive
    /\ _running' = FALSE
    /\ stopInLoop' = (stopInLoop \/ InPollLoop)
    /\ UNCHANGED << config, pc, probeVars, pollVars, exc, exitCode, log >>

----------------------------------------------------------------------------
(* _wait_for_camunda, lines 167-184.                                       *)

\* A mutant of WaitTest that retries whatever the flag is (`while True:`).
WaitTestIgnoresFlag ==
    /\ pc = "wait_test"
    /\ pc' = "wait_probe"
    /\ UNCHANGED << _running, config, probeVars, pollVars, stopInLoop, exc, exitCode, log >>

\* `while _running:` (line 170) and, when it fails, `return False` (184).
WaitTest ==
    /\ pc = "wait_test"
    /\ IF _running
       THEN /\ pc' = "wait_probe"
            /\ UNCHANGED << attempt, delays, reachable >>
       ELSE /\ pc' = "main_check"
            /\ reachable' = "False"
            /\ attempt' = 0
            /\ delays' = << >>
    /\ UNCHANGED << _running, config, probeOk, pollVars, stopInLoop, exc, exitCode, log >>

\* attempt += 1 and the probe request, lines 171-178.
WaitProbe ==
    /\ pc = "wait_probe"
    /\ attempt < MaxAttempts
    /\ \E outcome \in ProbeOutcomes :
         IF ProbeSucceeded(outcome)
         THEN /\ pc' = "main_check"
              /\ reachable' = "True"
              /\ probeOk' = (probeOk \/ outcome = "200")
              /\ attempt' = 0
              /\ delays' = << >>
              /\ UNCHANGED << exc, exitCode >>
         ELSE IF outcome = "non200" \/ CaughtByProbe(outcome)
         THEN /\ pc' = "wait_sleep"
              /\ attempt' = attempt + 1
              /\ UNCHANGED << delays, reachable, probeOk, exc, exitCode >>
         ELSE /\ Crash(outcome)
              /\ attempt' = attempt + 1
              /\ UNCHANGED << delays, reachable, probeOk >>
    /\ UNCHANGED << _running, config, pollVars, stopInLoop, log >>

\* backoff = min(...) and time.sleep(backoff), lines 179-183.
WaitSleep ==
    /\ pc = "wait_sleep"
    /\ delays' = Append(delays, Backoff(RETRY_BACKOFF, attempt))
    /\ pc' = "wait_test"
    /\ UNCHANGED << _running, config, attempt, reachable, probeOk, pollVars,
                    stopInLoop, exc, exitCode, log >>

----------------------------------------------------------------------------
(* main, lines 262-309.                                                    *)

\* `if not _wait_for_camunda(): ... sys.exit(1)`, lines 277-281.
MainCheck ==
    /\ pc = "main_check"
    /\ IF reachable = "True"
       THEN /\ pc' = "loop_test"
            /\ UNCHANGED << exitCode, log >>
       ELSE /\ pc' = "aborted"
            /\ exitCode' = {1}
            /\ log' = log \cup {"Aborted"}
    /\ UNCHANGED << _running, config, probeVars, pollVars, stopInLoop, exc >>

\* A mutant of LoopTest that loops whatever the flag is (`while True:`).
LoopTestIgnoresFlag ==
    /\ pc = "loop_test"
    /\ pc' = "fetch"
    /\ UNCHANGED << _running, config, probeVars, pollVars, stopInLoop, exc, exitCode, log >>

\* `while _running:` (line 283) and, when it fails, the final log line and
\* the return of main (line 309): exit code 0.
LoopTest ==
    /\ pc = "loop_test"
    /\ IF _running
       THEN /\ pc' = "fetch"
            /\ UNCHANGED << exitCode, log >>
       ELSE /\ pc' = "stopped"
            /\ exitCode' = {0}
            /\ log' = log \cup {"Worker stopped."}
    /\ UNCHANGED << _running, config, probeVars, pollVars, stopInLoop, exc >>

\* Where the for loop goes once position i of batch b is done: the next
\* task, or the idle sleep behind the loop (lines 286, 307).
AfterTask(b, i) == IF i < Len(b) THEN "dispatch" ELSE "idle_sleep"

Reverse(q) == [i \in 1..Len(q) |-> q[Len(q) + 1 - i]]

\* A mutant of Fetch that hands the batch to the loop in another order than
\* the response's.
FetchReordered ==
    /\ pc = "fetch"
    /\ nFetch < MaxPolls
    /\ \E ok \in BOOLEAN :
         \E batch \in (IF ok THEN Batches ELSE { << >> }) :
           /\ fetched' = batch
           /\ tasks' = Reverse(batch)
           /\ calls' = << Call("fetch", 0, "", "", "", NoVars, ok) >>
           /\ pc' = AfterTask(batch, 0)
    /\ idx' = 1
    /\ variables' = NoVars
    /\ raised' = {}
    /\ nFetch' = nFetch + 1
    /\ stopFetches' = stopFetches + (IF _running THEN 0 ELSE 1)
    /\ UNCHANGED << _running, config, probeVars, stopInLoop, exc, exitCode, log >>

\* A mutant of Fetch without the except clause of lines 205-207: a failed
\* request raises out of _fetch_and_lock.
FetchFailureRaises ==
    /\ pc = "fetch"
    /\ nFetch < MaxPolls
    /\ \E ok \in BOOLEAN :
         \E batch \in (IF ok THEN Batches ELSE { << >> }) :
           /\ fetched' = batch
           /\ tasks' = batch
           /\ calls' = << Call("fetch", 0, "", "", "", NoVars, ok) >>
           /\ IF ok
              THEN pc' = AfterTask(batch, 0) /\ UNCHANGED << exc, exitCode >>
              ELSE Crash("RequestException")
    /\ idx' = 1
    /\ variables' = NoVars
    /\ raised' = {}
    /\ nFetch' = nFetch + 1
    /\ stopFetches' = stopFetches + (IF _running THEN 0 ELSE 1)
    /\ UNCHANGED << _running, config, probeVars, stopInLoop, log >>

\* tasks = _fetch_and_lock(), lines 284 and 187-207: the response, or []
\* when requests raised.
Fetch ==
    /\ pc = "fetch"
    /\ nFetch < MaxPolls
    /\ \E ok \in BOOLEAN :
         \E batch \in (IF ok THEN Batches ELSE { << >> }) :
           /\ fetched' = batch
           /\ tasks' = batch
           /\ calls' = << Call("fetch", 0, "", "", "", NoVars, ok) >>
           /\ pc' = AfterTask(batch, 0)
    /\ idx' = 1
    /\ variables' = NoVars
    /\ raised' = {}
    /\ nFetch' = nFetch + 1
    /\ stopFetches' = stopFetches + (IF _running THEN 0 ELSE 1)
    /\ UNCHANGED << _running, config, probeVars, stopInLoop, exc, exitCode, log >>

\* A mutant of Dispatch that completes a task without a handler, with no
\* variables, instead of skipping it.
DispatchCompletesUnknown ==
    /\ pc = "dispatch"
    /\ LET task == tasks[idx]
           topic == task.topicName
       IN IF HasHandler(topic)
          THEN LET r == CallHandler(topic, task, MOCK_IS_READABLE, MOCK_IS_DUPLICATE)
               IN IF r.raised
                  THEN /\ Crash("AttributeError")
                       /\ raised' = raised \cup {idx}
                       /\ UNCHANGED << variables, idx >>
                  ELSE /\ variables' = r.vars
                       /\ pc' = "complete"
                       /\ UNCHANGED << raised, idx, exc, exitCode >>
          ELSE /\ variables' = NoVars
               /\ pc' = "complete"
               /\ UNCHANGED << raised, idx, exc, exitCode >>
    /\ UNCHANGED << _running, config, probeVars, fetched, tasks, calls, nFetch, stopFetches,
                    stopInLoop, log >>

\* Lines 287-299 and 304-305 for tasks[idx]: the lookup and the handler.
Dispatch ==
    /\ pc = "dispatch"
    /\ LET task == tasks[idx]
           topic == task.topicName
       IN IF HasHandler(topic)
          THEN LET r == CallHandler(topic, task, MOCK_IS_READABLE, MOCK_IS_DUPLICATE)
               IN IF r.raised
                  THEN /\ Crash("AttributeError")
                       /\ raised' = raised \cup {idx}
                       /\ UNCHANGED << variables, idx >>
                  ELSE /\ variables' = r.vars
                       /\ pc' = "complete"
                       /\ UNCHANGED << raised, idx, exc, exitCode >>
          ELSE /\ pc' = AfterTask(tasks, idx)
               /\ idx' = idx + 1
               /\ UNCHANGED << variables, raised, exc, exitCode >>
    /\ UNCHANGED << _running, config, probeVars, fetched, tasks, calls, nFetch, stopFetches,
                    stopInLoop, log >>

\* A mutant of FollowUp that does not read the flag.
FollowUpIgnoresFlag(topic, flag) == topic = "sendCogEmail"

\* `topic == "sendCogEmail" and MOCK_AUTO_COG_RESPONSE`, line 302.
FollowUp(topic, flag) == topic = "sendCogEmail" /\ flag

\* _complete_task(task, variables), lines 300 and 210-225, and the test of
\* line 302.  task["id"] raises KeyError for a task without an id.
Complete ==
    /\ pc = "complete"
    /\ LET task == tasks[idx]
       IN IF task.id = NoId
          THEN /\ Crash("KeyError")
               /\ UNCHANGED << calls, idx >>
          ELSE /\ \E ok \in BOOLEAN :
                    calls' = Append(calls, Call("complete", idx, task.id, "", "",
                                                variables, ok))
               /\ IF FollowUp(task.topicName, MOCK_AUTO_COG_RESPONSE)
                  THEN /\ pc' = "cog_sleep"
                       /\ idx' = idx
                  ELSE /\ pc' = AfterTask(tasks, idx)
                       /\ idx' = idx + 1
               /\ UNCHANGED << exc, exitCode >>
    /\ UNCHANGED << _running, config, probeVars, fetched, tasks, variables, raised, nFetch,
                    stopFetches, stopInLoop, log >>

\* time.sleep(MOCK_COG_DELAY) of _send_cog_form_message, lines 234-239.
CogSleep ==
    /\ pc = "cog_sleep"
    /\ pc' = "cog_send"
    /\ UNCHANGED << _running, config, probeVars, pollVars, stopInLoop, exc, exitCode, log >>

\* The message request of _send_cog_form_message, lines 240-259.
CogSend ==
    /\ pc = "cog_send"
    /\ \E ok \in BOOLEAN :
         calls' = Append(calls, Call("message", idx, "", tasks[idx].processInstanceId,
                                     "CogFormSubmitted", NoVars, ok))
    /\ pc' = AfterTask(tasks, idx)
    /\ idx' = idx + 1
    /\ UNCHANGED << _running, config, probeVars, fetched, tasks, variables, raised, nFetch,
                    stopFetches, stopInLoop, exc, exitCode, log >>

\* time.sleep(POLL_INTERVAL), line 307.
IdleSleep ==
    /\ pc = "idle_sleep"
    /\ pc' = "loop_test"
    /\ UNCHANGED << _running, config, probeVars, pollVars, stopInLoop, exc, exitCode, log >>

----------------------------------------------------------------------------

Next ==
    \/ _shutdown
    \/ WaitTest
    \/ WaitProbe
    \/ WaitSleep
    \/ MainCheck
    \/ LoopTest
    \/ Fetch
    \/ Dispatch
    \/ Complete
    \/ CogSleep
    \/ CogSend
    \/ IdleSleep

Spec == Init /\ [][Next]_vars

----------------------------------------------------------------------------
(* Vocabulary of the properties.                                           *)

\* The topics of the registry, lines 150-160.
KnownTopics ==
    {"sendNotification", "resumeLoanProcessing", "routeToNextStage", "archiveCase",
     "assessReadability", "checkDuplicateApplication", "sendCogEmail",
     "extractBorrowerData", "notifyDuplicate"}

Known(i) == tasks[i].topicName \in KnownTopics

\* The calls of the current pass with operation op for position i.
CallsFor(op, i) == { k \in 1..Len(calls) : calls[k].op = op /\ calls[k].i = i }

\* The probe loop is behind us and main went into the poll loop.
PollStarted == reachable = "True" /\ pc # "main_check"

\* The dispatch of the current batch is over: the for loop was left, or an
\* exception ended it.
PassOver == pc = "idle_sleep" \/ (pc = "crashed" /\ PollStarted)

\* A step of the main thread (any step but the signal handler).
MainStep == pc' # pc \/ idx' # idx \/ calls' # calls \/ delays' # delays

----------------------------------------------------------------------------
(* C1: when the handler of a fetched task raises, the failure is caught at *)
(* the dispatch boundary: no completion call for that task, the process    *)
(* does not end, the rest of the batch is dispatched and the loop goes on  *)
(* to its idle sleep.  Stated as: for every position whose handler raised, *)
(* the process has not crashed and no completion was issued for it.        *)
C1_HandlerFailureContained ==
    \A i \in raised : pc # "crashed" /\ exc = "none" /\ CallsFor("complete", i) = {}

(* C2: once the poll loop has started, the process ends only after the     *)
(* Running Flag was set false, by the regular exit of the loop: nothing    *)
(* that happens to a fetch, a task, a handler, a completion or a message   *)
(* ends it.                                                                *)
C2_OnlySignalEndsPollLoop ==
    (PollStarted /\ ~Alive) => (~_running /\ pc = "stopped" /\ exc = "none")

(* C3: a fetched task whose topic is not in the registry gets no           *)
(* completion call and no message call, so every complete and message call *)
(* of a pass is for a task with a known topic; and the step that           *)
(* dispatches such a task issues no call and moves on to the next task of  *)
(* the batch (or to the idle sleep behind the last one).                   *)
C3_UnknownTopicSkipped ==
    /\ [](\A k \in 1..Len(calls) :
            calls[k].op \in {"complete", "message"} => Known(calls[k].i))
    /\ [][(pc = "dispatch" /\ ~Known(idx) /\ MainStep)
            => /\ calls' = calls
               /\ idx' = idx + 1
               /\ pc' = (IF idx < Len(tasks) THEN "dispatch" ELSE "idle_sleep")
               /\ exitCode' = {}]_vars

\* An unknown-topic task was skipped and a later task of the batch completed.
C3_Witness ==
    \E k \in 1..Len(calls) :
      /\ calls[k].op = "complete"
      /\ \E j \in 1..(calls[k].i - 1) : ~Known(j)

(* C4: in one pass over a batch, every fetched task with a known topic     *)
(* gets exactly one completion call: never two, and, once the pass is      *)
(* over, not zero.                                                         *)
C4_ExactlyOneCompletion ==
    /\ \A i \in 1..Len(tasks) : Cardinality(CallsFor("complete", i)) <= 1
    /\ PassOver =>
         \A i \in 1..Len(tasks) : Known(i) => Cardinality(CallsFor("complete", i)) = 1

(* C5: the delay slept after the n-th consecutive failed probe is          *)
(* min(base * n, 30): the delays never decrease and never exceed the cap;  *)
(* with base 5 the first four are 5, 10, 15, 20 and the seventh is 30.     *)
C5_BackoffDelays ==
    /\ \A n \in 1..Len(delays) :
         /\ delays[n] = (IF RETRY_BACKOFF * n <= 30 THEN RETRY_BACKOFF * n ELSE 30)
         /\ delays[n] <= 30
         /\ n > 1 => delays[n - 1] <= delays[n]
    /\ RETRY_BACKOFF = 5 =>
         /\ \A n \in 1..Len(delays) : n <= 4 => delays[n] = 5 * n
         /\ Len(delays) >= 7 => delays[7] = 30

\* Seven probes in a row have failed with base 5.
C5_Witness == RETRY_BACKOFF = 5 /\ Len(delays) >= 7 /\ pc = "wait_test"

(* C6: no fetchAndLock call, and so no complete or message call, is issued *)
(* before a probe has answered HTTP 200.                                   *)
C6_NoFetchBeforeProbeSuccess ==
    (nFetch > 0 \/ calls # << >> \/ pc = "fetch") => probeOk

\* After failed probes and a successful one, a fetched task was completed.
C6_Witness ==
    /\ probeOk
    /\ nFetch > 0
    /\ \E k \in 1..Len(calls) : calls[k].op = "complete"

(* C7: the probe loop ends in two ways only: a probe succeeded and main    *)
(* enters the poll loop, or the Running Flag was seen false and startup    *)
(* aborts with a non-zero exit code and no fetch.                          *)
C7_ProbeLoopEndsTwoWays ==
    pc \notin {"wait_test", "wait_probe", "wait_sleep"} =>
      \/ reachable = "True" /\ probeOk
      \/ /\ reachable = "False"
         /\ ~_running
         /\ nFetch = 0
         /\ pc \in {"main_check", "aborted"}
         /\ pc = "aborted" => exitCode = {1}

(* C8: every failed probe attempt, whatever its kind, leads to the backoff *)
(* sleep and a retry: a probe attempt either succeeds or goes to the       *)
(* sleep, and never raises out of the probe loop.                          *)
C8_FailedProbeRetried ==
    [][(pc = "wait_probe" /\ MainStep) => pc' \in {"main_check", "wait_sleep"}]_vars

C10_SignalEndsStopped ==
    (stopInLoop /\ ~Alive /\ raised = {}) =>
      (pc = "stopped" /\ exc = "none" /\ exitCode = {0} /\ "Worker stopped." \in log)

(* C11: for every fetched sendCogEmail task, with the follow-up flag on,   *)
(* the worker calls complete for it and then, after the delay, sends the   *)
(* message CogFormSubmitted with that task's process instance id.  Stated  *)
(* as: a message call directly follows the completion call of the same     *)
(* task and carries its process instance id and the fixed name; and once   *)
(* the pass over the batch is over, every such task has had both calls.    *)
C11_CompleteThenMessage ==
    /\ \A k \in 1..Len(calls) :
         calls[k].op = "message" =>
           /\ k > 1
           /\ calls[k - 1].op = "complete"
           /\ calls[k - 1].i = calls[k].i
           /\ calls[k].pid = tasks[calls[k].i].processInstanceId
           /\ calls[k].name = "CogFormSubmitted"
    /\ (PassOver /\ MOCK_AUTO_COG_RESPONSE) =>
         \A i \in 1..Len(tasks) :
           tasks[i].topicName = "sendCogEmail" =>
             (CallsFor("complete", i) # {} /\ CallsFor("message", i) # {})

(* C12: the follow-up message of a sendCogEmail task is sent only after    *)
(* that task was completed successfully: every message call has a          *)
(* successful completion call of the same task before it.                  *)
C12_MessageOnlyAfterSuccessfulCompletion ==
    \A k \in 1..Len(calls) :
      calls[k].op = "message" =>
        \E j \in 1..(k - 1) :
          calls[j].op = "complete" /\ calls[j].i = calls[k].i /\ calls[j].ok

(* C13: within a batch the tasks are dispatched one after the other in the *)
(* order of the fetch response: the completion calls of a pass name the    *)
(* fetched tasks at strictly increasing positions, every call of the pass  *)
(* belongs to a position not behind the one being dispatched, and when the *)
(* lookup of a task starts every call so far belongs to an earlier one.    *)
C13_DispatchInFetchOrder ==
    /\ \A k \in 2..Len(calls) :
         /\ calls[k].i \in 1..Len(fetched)
         /\ calls[k].i <= idx
         /\ pc = "dispatch" => calls[k].i < idx
         /\ calls[k].op = "complete" => calls[k].id = fetched[calls[k].i].id
         /\ calls[k].op = "message" =>
              calls[k].pid = fetched[calls[k].i].processInstanceId
    /\ \A j \in 2..Len(calls) : \A k \in 2..Len(calls) :
         j < k =>
           /\ calls[j].i <= calls[k].i
           /\ (calls[j].op = "complete" /\ calls[k].op = "complete") =>
                calls[j].i < calls[k].i

\* A batch of two whose first task was completed and messaged and whose
\* second task was completed after that.
C13_Witness ==
    /\ Len(calls) = 4
    /\ calls[2].op = "complete" /\ calls[2].i = 1
    /\ calls[3].op = "message" /\ calls[3].i = 1
    /\ calls[4].op = "complete" /\ calls[4].i = 2

(* C14: at-least-once delivery.  A failed completion is not retried in the *)
(* same pass, and every offered task with a known topic is completed by a  *)
(* later pass as long as the Running Flag stays true.  Stated on finite    *)
(* runs: no task gets a second completion call in a pass, and while the    *)
(* flag is true and a known-topic task of the batch has no successful      *)
(* completion, the worker is still running, so that a later pass exists.   *)
C14_AtLeastOnce ==
    /\ \A i \in 1..Len(tasks) : Cardinality(CallsFor("complete", i)) <= 1
    /\ ( /\ _running
         /\ PollStarted
         /\ \E i \in 1..Len(tasks) :
              /\ Known(i)
              /\ \A k \in CallsFor("complete", i) : ~calls[k].ok )
       => Alive

(* C15: for both values of the duplicate-check flag the result of the      *)
(* duplicate-check handler holds isDuplicate, equal to the flag, of type   *)
(* Boolean; with the flag true it also holds a non-empty                   *)
(* matchedApplicationId of type String, with the flag false it has no      *)
(* matchedApplicationId.                                                   *)
C15_DuplicateResult ==
    (pc = "complete" /\ tasks[idx].topicName = "checkDuplicateApplication") =>
      /\ "isDuplicate" \in DOMAIN variables
      /\ variables["isDuplicate"].value = MOCK_IS_DUPLICATE
      /\ variables["isDuplicate"].type = "Boolean"
      /\ MOCK_IS_DUPLICATE =>
           /\ "matchedApplicationId" \in DOMAIN variables
           /\ variables["matchedApplicationId"].type = "String"
           /\ variables["matchedApplicationId"].value # ""
      /\ ~MOCK_IS_DUPLICATE => "matchedApplicationId" \notin DOMAIN variables

\* The handler has run on a checkDuplicateApplication task with the flag
\* false and its result has the one key isDuplicate.
C15_Witness ==
    /\ pc = "complete"
    /\ tasks[idx].topicName = "checkDuplicateApplication"
    /\ ~MOCK_IS_DUPLICATE
    /\ DOMAIN variables = {"isDuplicate"}

(* C16: for both values of the readability flag, the variables passed to   *)
(* complete for a task on the assessReadability topic hold isReadable with *)
(* the flag as value and the type tag Boolean.                             *)
C16_ReadabilityResult ==
    \A k \in 2..Len(calls) :
      (calls[k].op = "complete" /\ fetched[calls[k].i].topicName = "assessReadability") =>
        /\ "isReadable" \in DOMAIN calls[k].vars
        /\ calls[k].vars["isReadable"].value = MOCK_IS_READABLE
        /\ calls[k].vars["isReadable"].type = "Boolean"

\* A completion call for an assessReadability task with the flag false.
C16_Witness ==
    /\ ~MOCK_IS_READABLE
    /\ \E k \in 2..Len(calls) :
         /\ calls[k].op = "complete"
         /\ fetched[calls[k].i].topicName = "assessReadability"
         /\ calls[k].vars["isReadable"].value = FALSE

(* C17: a fetchAndLock call that fails behaves like an empty response: the *)
(* batch is empty, no task is dispatched and no complete or message call   *)
(* is issued in that pass; the worker goes to the idle sleep, from there   *)
(* to the loop test, and polls again when the Running Flag is still true.  *)
C17_FailedFetchIsEmptyFetch ==
    /\ []((Len(calls) >= 1 /\ ~calls[1].ok) =>
            /\ tasks = << >>
            /\ Len(calls) = 1
            /\ pc \in {"idle_sleep", "loop_test", "fetch", "stopped"})
    /\ [][(pc = "fetch" /\ MainStep /\ ~calls'[1].ok) => pc' = "idle_sleep"]_vars
    /\ [][(pc = "idle_sleep" /\ MainStep) => pc' = "loop_test"]_vars
    /\ [][(pc = "loop_test" /\ _running /\ MainStep) => pc' = "fetch"]_vars

\* The first fetch failed; the worker has slept and is about to poll again.
C17_Witness ==
    /\ nFetch = 1
    /\ Len(calls) = 1
    /\ ~calls[1].ok
    /\ pc = "fetch"

(* C18: the Running Flag starts true and is written by the signal handler  *)
(* only, and only to false: once false it stays false, and no step of the  *)
(* main thread (probe loop, poll loop, handlers, engine calls) changes it. *)
C18_RunningFlagOnlyCleared ==
    /\ _running = TRUE
    /\ [][~_running => ~_running']_vars
    /\ [][MainStep => _running' = _running]_vars

\* The flag was cleared during the poll loop and the worker went on to stop.
C18_Witness == ~_running /\ pc = "stopped" /\ nFetch > 0

(* C19 as stated: each of the three sleeps (probe backoff, idle, follow-up *)
(* delay) is begun only while the Running Flag is true, and after a sleep  *)
(* that ended with the flag false no new work is started: no probe, no     *)
(* fetch, no message.                                                      *)
C19_SleepsGuardedByFlag ==
    /\ [][(pc \in {"wait_sleep", "idle_sleep", "cog_sleep"} /\ MainStep) => _running]_vars
    /\ [][(pc = "wait_test" /\ ~_running /\ MainStep) => pc' # "wait_probe"]_vars
    /\ [][(pc = "loop_test" /\ ~_running /\ MainStep) => pc' # "fetch"]_vars
    /\ [][(pc = "cog_send" /\ ~_running /\ MainStep) => calls' = calls]_vars

(* C19, amended: the Running Flag is read at the two loop tests only.      *)
(* After a backoff sleep that ended with the flag false no new probe is    *)
(* made and after an idle sleep that ended with the flag false no new      *)
(* fetch is made; each of the three sleeps is performed whatever the flag  *)
(* is, and the message after the follow-up delay is sent whatever the flag *)
(* is.                                                                     *)
C19_FlagReadAtLoopTestsOnly ==
    /\ [][(pc = "wait_test" /\ ~_running /\ MainStep)
            => (pc' = "main_check" /\ reachable' = "False" /\ attempt' = 0)]_vars
    /\ [][(pc = "loop_test" /\ ~_running /\ MainStep)
            => (pc' = "stopped" /\ calls' = calls /\ nFetch' = nFetch)]_vars
    /\ [][(pc = "wait_sleep" /\ MainStep) => pc' = "wait_test"]_vars
    /\ [][(pc = "idle_sleep" /\ MainStep) => pc' = "loop_test"]_vars
    /\ [][(pc = "cog_sleep" /\ MainStep) => pc' = "cog_send"]_vars
    /\ [][(pc = "cog_send" /\ MainStep)
            => /\ Len(calls') = Len(calls) + 1
               /\ calls'[Len(calls')].op = "message"]_vars

\* The follow-up delay has ended with the flag false; the message is next.
C19_Witness == pc = "cog_send" /\ ~_running

(* C20: a message call is issued only while a sendCogEmail task is being   *)
(* dispatched and only with the follow-up flag on, at most once per task;  *)
(* for any other topic, and with the flag off, there is neither a message  *)
(* call nor a follow-up delay.                                             *)
C20_MessageOnlyForCogEmail ==
    /\ \A k \in 2..Len(calls) :
         calls[k].op = "message" =>
           /\ fetched[calls[k].i].topicName = "sendCogEmail"
           /\ MOCK_AUTO_COG_RESPONSE
           /\ Cardinality(CallsFor("message", calls[k].i)) = 1
    /\ pc \in {"cog_sleep", "cog_send"} =>
         (tasks[idx].topicName = "sendCogEmail" /\ MOCK_AUTO_COG_RESPONSE)

\* A pass that completed a task of another topic, with no message, and
\* completed and messaged a sendCogEmail task.
C20_Witness ==
    /\ pc = "idle_sleep"
    /\ \E k \in 2..Len(calls) : calls[k].op = "message"
    /\ \E k \in 2..Len(calls) :
         /\ calls[k].op = "complete"
         /\ fetched[calls[k].i].topicName # "sendCogEmail"
         /\ CallsFor("message", calls[k].i) = {}

====
